---- MODULE Spec2Model ----
(***************************************************************************)
(* A model of src/main.py: the heyao_query plugin.  One plugin instance    *)
(* owns last_image_path; every command runs handle_heyao_query, an async   *)
(* generator that validates the message, fetches the order from the API,   *)
(* extracts the content record, deletes the previous image, renders a new  *)
(* one and yields it to the host.                                          *)
(*                                                                         *)
(* Python values are records [t |-> type, v |-> payload]; a Python str is  *)
(* a sequence of pieces (characters or literal chunks), a dict is a set of *)
(* <<key, value>> pairs.  User-facing texts are ASCII glosses of the       *)
(* Chinese literals of the source; each names its source line.             *)
(***************************************************************************)
EXTENDS Integers, Sequences, FiniteSets, TLC

\* ---- bounds of the model ------------------------------------------------
\* longest user message, in characters
MaxMsgLen == 4
\* invocations the host may run concurrently (SpecConc)
MaxSlots == 2
\* last reading of the sub-second clock
MaxTime == 2
\* clock readings per wall-clock second (a scaled-down 1,000,000)
UsecPerSec == 2

Slots == 1 .. MaxSlots

\* ---- Python values --------------------------------------------------------
None == [t |-> "null", v |-> 0]
Num(n) == [t |-> "num", v |-> n]
Str(s) == [t |-> "str", v |-> s]
List(xs) == [t |-> "list", v |-> xs]
Dict(ps) == [t |-> "dict", v |-> ps]

\* bool(x) as `not x` uses it (lines 234, 248)
Truthy(x) ==
  CASE x.t = "null" -> FALSE
    [] x.t = "num" -> x.v # 0
    [] x.t = "str" -> x.v # <<>>
    [] x.t = "list" -> x.v # <<>>
    [] x.t = "dict" -> x.v # {}
    [] OTHER -> TRUE

HasKey(d, k) == \E p \in d.v : p[1] = k

\* dict.get(k, default)
Get(d, k, default) ==
  IF HasKey(d, k) THEN (CHOOSE p \in d.v : p[1] = k)[2] ELSE default

\* str(x): a str is itself, None is "None", an int its decimal digits;
\* containers are abbreviated (no claim reads their text)
PyStr(x) ==
  CASE x.t = "str" -> x.v
    [] x.t = "null" -> <<"None">>
    [] x.t = "num" -> <<ToString(x.v)>>
    [] x.t = "list" -> <<"[...]">>
    [] OTHER -> <<"{...}">>

\* ---- str.split(maxsplit=1) and str.strip() (lines 202, 204, 210) ----------
IsSpace(c) == c = " "

RECURSIVE LStrip(_)
LStrip(s) == IF s # <<>> /\ IsSpace(Head(s)) THEN LStrip(Tail(s)) ELSE s

RECURSIVE RStrip(_)
RStrip(s) ==
  IF s # <<>> /\ IsSpace(s[Len(s)]) THEN RStrip(SubSeq(s, 1, Len(s) - 1)) ELSE s

Strip(s) == RStrip(LStrip(s))

\* the longest prefix of s without whitespace
RECURSIVE TakeWord(_)
TakeWord(s) ==
  IF s = <<>> \/ IsSpace(Head(s)) THEN <<>> ELSE <<Head(s)>> \o TakeWord(Tail(s))

\* s.split(maxsplit=1): leading whitespace is skipped, the first word is cut,
\* the whitespace after it is skipped, and what is left (trailing whitespace
\* included) is the second part, if it is not empty
Split1(s) ==
  LET a == LStrip(s)
      w == TakeWord(a)
      r == LStrip(SubSeq(a, Len(w) + 1, Len(a)))
  IN  IF a = <<>> THEN <<>> ELSE IF r = <<>> THEN <<w>> ELSE <<w, r>>

\* ---- user-facing results ----------------------------------------------------
Plain(text) == [kind |-> "plain", text |-> text]
ImageResult(path) == [kind |-> "image", file |-> path]

\* line 206
UsageText == <<"provide an order id. usage: /heyao <order id>">>
\* line 214
EmptyText == <<"the order id must not be empty. usage: /heyao <order id>">>
\* line 219
AckText(o) == <<"querying order: ">> \o o \o <<"...">>
\* line 226
FetchFailedText(o) == <<"error querying order ">> \o o \o <<", check the log or retry">>
\* line 236
GenericMsg == <<"order not found or API response malformed.">>
\* line 239
NotFoundText(o) == <<"no information found for order ">> \o o \o <<".">>
\* line 241
ApiErrorText(e) == <<"API error: ">> \o PyStr(e)
\* line 243
QueryFailedText(err, o) == <<"query failed: ">> \o err \o <<" (order: ">> \o o \o <<")">>
\* line 250
MalformedText(o) == <<"query ok, but the order details could not be parsed. (order: ">> \o o \o <<")">>
\* line 259
ProcessingErrorText(o) == <<"error while processing the API response. (order: ">> \o o \o <<")">>
\* line 302
SendProblemText == <<"image generated, but sending it ran into a problem.">>
\* line 309
RenderFailedText(o) == <<"order fetched, but generating the image failed. (order: ">> \o o \o <<")">>

\* a slip of line 204: a message of one word is taken as the order id
ValidateLoose(m) ==
  LET parts == Split1(m) IN
  IF Len(parts) < 1 \/ Strip(parts[Len(parts)]) = <<>>
  THEN [ok |-> FALSE, order |-> None, out |-> Plain(UsageText)]
  ELSE [ok |-> TRUE, order |-> Str(Strip(parts[Len(parts)])),
        out |-> Plain(AckText(Strip(parts[Len(parts)])))]

\* ---- validation (lines 200-216) ---------------------------------------------
\* [ok, order, out]: whether the handler goes on, the order id, the result yielded
Validate(m) ==
  LET parts == Split1(m) IN
  IF Len(parts) < 2 \/ Strip(parts[2]) = <<>>
  THEN [ok |-> FALSE, order |-> None, out |-> Plain(UsageText)]
  ELSE LET order_id_user == Strip(parts[2]) IN
       IF order_id_user = <<>>
       THEN [ok |-> FALSE, order |-> None, out |-> Plain(EmptyText)]
       ELSE [ok |-> TRUE, order |-> Str(order_id_user),
             out |-> Plain(AckText(order_id_user))]

\* ---- results of a call: a return value or a raised exception ---------------
Ret(x) == [tag |-> "ret", v |-> x]
Raise(e) == [tag |-> "raise", v |-> e]

\* the classes an exception is an instance of, as the except clauses see it
Ancestors(e) ==
  CASE e = "Timeout" -> {"Timeout", "RequestException", "Exception"}
    [] e = "ConnectionError" -> {"ConnectionError", "RequestException", "Exception"}
    [] e = "JSONDecodeError" -> {"JSONDecodeError", "ValueError", "Exception"}
    [] OTHER -> {e, "Exception"}

\* ---- fetch_wechat_info (lines 29-77) ----------------------------------------
\* what the HTTP call did: kind is timeout, conn_error or response; a response
\* has a status and a body, the body a JSON value or InvalidBody
InvalidBody == [t |-> "invalid", v |-> 0]
NoResponse(kind) == [kind |-> kind, status |-> 0, body |-> InvalidBody]
Response(status, body) == [kind |-> "response", status |-> status, body |-> body]

\* bool(response) is response.ok: the status is below 400
ResponseTruthy(http) == http.status < 400

\* the try body, lines 43-62
FetchBody(http) ==
  CASE http.kind = "timeout" -> Raise("Timeout")
    [] http.kind = "conn_error" -> Raise("ConnectionError")
    [] OTHER ->
         IF ResponseTruthy(http) /\ http.status = 200
         THEN IF http.body = InvalidBody THEN Raise("JSONDecodeError")
              ELSE Ret(http.body)
         ELSE Ret(None)

\* the except clauses, lines 64-77
FetchHandlers == {"Timeout", "RequestException", "JSONDecodeError", "Exception"}

fetch_wechat_info(http) ==
  LET r == FetchBody(http) IN
  IF r.tag = "raise"
  THEN IF Ancestors(r.v) \cap FetchHandlers # {} THEN Ret(None) ELSE r
  ELSE r

\* lines 236-242 with the branches in another order: error, code, msg
ErrorMsgErrorFirst(api_data, o) ==
  IF HasKey(api_data, "error") THEN ApiErrorText(Get(api_data, "error", None))
  ELSE IF Get(api_data, "code", None) = Num(-1) THEN NotFoundText(o)
  ELSE PyStr(Get(api_data, "msg", Str(GenericMsg)))

\* ---- the response extractor (lines 230-261) ---------------------------------
\* lines 236-242: the text of the failure message
ErrorMsg(api_data, o) ==
  LET error_msg == Get(api_data, "msg", Str(GenericMsg)) IN
  IF error_msg.t = "str" /\ error_msg.v = GenericMsg
  THEN IF Get(api_data, "code", None) = Num(-1) THEN NotFoundText(o)
       ELSE IF HasKey(api_data, "error")
            THEN ApiErrorText(Get(api_data, "error", None))
            ELSE PyStr(error_msg)
  ELSE PyStr(error_msg)

Step(next, out, details) == [next |-> next, out |-> out, details |-> details]

\* `not x or not isinstance(x, list) or len(x) == 0`, line 234
NoQueryData(q) == ~Truthy(q) \/ q.t # "list" \/ Len(q.v) = 0

\* line 248 without its `not x`
BadContentTypeOnly(c) == c.t # "dict"

\* `not x or not isinstance(x, dict)`, line 248
BadContent(c) == ~Truthy(c) \/ c.t # "dict"

\* the try body, lines 231-254; .get on a value that is no dict raises
Extract(api_data, o) ==
  IF api_data.t # "dict" THEN Raise("AttributeError")
  ELSE
    LET query_data_list == Get(api_data, "queryDataList", None) IN
    IF NoQueryData(query_data_list)
    THEN Ret(Step("yield_extract_err",
                  Plain(QueryFailedText(ErrorMsg(api_data, o), o)), None))
    ELSE
      LET first == query_data_list.v[1] IN
      IF first.t # "dict" THEN Raise("AttributeError")
      ELSE
        LET order_details == Get(first, "content", None) IN
        IF BadContent(order_details)
        THEN Ret(Step("yield_extract_err", Plain(MalformedText(o)), None))
        ELSE Ret(Step("delete_prev", None, order_details))

\* line 256 catching only the classes its comment lists
CatchesListed(e) == Ancestors(e) \cap {"KeyError", "IndexError", "TypeError"} # {}

\* `except Exception`, line 256
Catches256(e) == "Exception" \in Ancestors(e)

\* lines 230-261 with the except clause
ProcessResponse(api_data, o) ==
  LET r == Extract(api_data, o) IN
  IF r.tag = "raise"
  THEN IF Catches256(r.v)
       THEN Step("yield_proc_err", Plain(ProcessingErrorText(o)), None)
       ELSE Step("crashed", None, None)
  ELSE r.v

\* ---- generate_image (lines 80-175) ------------------------------------------
\* s.lstrip('#')
RECURSIVE LStripHash(_)
LStripHash(s) == IF s # <<>> /\ Head(s) = "#" THEN LStripHash(Tail(s)) ELSE s

\* .replace('/', '_').replace('\\', '_').replace(' ', '_')
ReplaceUnsafe(s) ==
  [k \in 1 .. Len(s) |-> IF s[k] \in {"/", "\\", " "} THEN "_" ELSE s[k]]

\* lines 159-161
SafeBatch(batch_number) ==
  LET safe_batch == ReplaceUnsafe(LStripHash(batch_number)) IN
  IF safe_batch = <<>> \/ (\A k \in 1 .. Len(safe_batch) : IsSpace(safe_batch[k]))
  THEN <<"UnknownBatch">>
  ELSE safe_batch

\* time.strftime('%Y%m%d%H%M%S_%f') at clock reading now (line 162):
\* time.strftime has no %f directive, the C library leaves it as it is, so
\* the text is the second followed by the two characters %f
Stamp(tm) == <<tm \div UsecPerSec, "_%f">>

\* line 163-164
ImagePath(safe_batch, stamp) ==
  [t |-> "path", v |-> [dir |-> "temp_images", batch |-> safe_batch, stamp |-> stamp]]

\* how the assets and the filesystem behave for one call
RenderEnvs == {"ok", "template_missing", "save_error"}

\* the path of the file written, or None (lines 90-92, 159, 166, 170-175);
\* v0 that is no str makes batch_number.lstrip raise, which line 173 catches;
\* a save that fails leaves no file behind (Pillow removes the file it created)
generate_image(data, env, tm) ==
  LET batch_number == Get(data, "v0", Str(<<"N", "/", "A">>)) IN
  IF env # "ok" THEN None
  ELSE IF batch_number.t # "str" THEN None
  ELSE ImagePath(SafeBatch(batch_number.v), Stamp(tm))

\* ---- inputs -------------------------------------------------------------------
Alphabet == {"x", " "}

\* every message of at most MaxMsgLen characters
Messages == UNION {[1 .. n -> Alphabet] : n \in 0 .. MaxMsgLen}

\* content records of the API
DetailsABC == Dict({<<"v0", Str(<<"#", "A", "/", "B", " ", "C">>)>>, <<"v2", Str(<<"x">>)>>})
DetailsHash == Dict({<<"v0", Str(<<"#">>)>>})
DetailsNumBatch == Dict({<<"v0", Num(5)>>})
DetailsNoBatch == Dict({<<"v1", Str(<<"x">>)>>})
DetailsEmpty == Dict({})

Contents ==
  {DetailsABC, DetailsHash, DetailsNumBatch, DetailsEmpty,
   None, Str(<<"x">>), List(<<Num(1)>>)}

\* element 0 of queryDataList
Elements ==
  {Dict({<<"content", c>>}) : c \in Contents}
    \cup {Dict({}), Dict({<<"id", Num(1)>>}), None, Num(3), Str(<<"x">>), List(<<>>)}

WithResults(e) == Dict({<<"queryDataList", List(<<e>>)>>, <<"code", Num(0)>>})

\* responses without results: every combination of queryDataList, msg, code, error
QueryOpts ==
  {{}, {<<"queryDataList", List(<<>>)>>}, {<<"queryDataList", None>>},
   {<<"queryDataList", Dict({<<"k", Num(1)>>})>>}}
MsgOpts == {{}, {<<"msg", Str(<<"m">>)>>}, {<<"msg", Str(GenericMsg)>>}, {<<"msg", None>>}}
CodeOpts == {{}, {<<"code", Num(-1)>>}, {<<"code", Num(0)>>}}
ErrorOpts == {{}, {<<"error", Str(<<"e">>)>>}}

NoResultResponses ==
  {Dict(q \cup m \cup c \cup e) :
     q \in QueryOpts, m \in MsgOpts, c \in CodeOpts, e \in ErrorOpts}

\* JSON values that are no object
NonObjects == {None, Num(0), Num(7), Str(<<"o", "k">>), List(<<>>), List(<<Num(1)>>)}

ApiResponses ==
  NonObjects \cup NoResultResponses \cup {WithResults(e) : e \in Elements}

HttpOutcomes ==
  {NoResponse("timeout"), NoResponse("conn_error"),
   Response(500, InvalidBody), Response(404, Dict({<<"msg", Str(<<"m">>)>>})),
   Response(302, InvalidBody), Response(204, InvalidBody),
   Response(200, InvalidBody)}
    \cup {Response(200, b) : b \in ApiResponses}

\* the inputs of the concurrent specification
ConcMessages == {<<"x", " ", "x">>}
ConcOutcomes ==
  {NoResponse("timeout"),
   Response(200, WithResults(Dict({<<"content", DetailsABC>>}))),
   Response(200, WithResults(Dict({<<"content", DetailsNoBatch>>}))),
   Response(200, WithResults(Dict({<<"content", DetailsNumBatch>>})))}

\* ---- state ---------------------------------------------------------------------
VARIABLES
  last_image_path,  \* self.last_image_path (line 192)
  disk,             \* the generated files that exist under temp_images
  now,              \* the next reading of the clock
  running,          \* the invocation holding the event loop, 0 when none does
  pc,               \* where each invocation is
  loc,              \* the local variables of each invocation
  outputs,          \* the results each invocation has yielded to the host
  fetches,          \* the network calls each invocation has started
  unlinked,         \* what the delete step of each invocation logged
  start,            \* the last finished invocation, as each invocation found it
  completed,        \* the last finished invocation: its result and image
  deleteFailed,     \* whether any unlink has failed (lines 270-274)
  genLog            \* the last two successful calls of generate_image

vars ==
  <<last_image_path, disk, now, running, pc, loc, outputs, fetches, unlinked,
    start, completed, deleteFailed, genLog>>

Unset == [t |-> "unset", v |-> 0]

NoLocals ==
  [full_message |-> Unset, order_id_user |-> Unset, response |-> Unset,
   api_data |-> Unset, order_details |-> Unset, image_path |-> Unset]

NoInvocation == [result |-> "none", path |-> Unset]

\* the yields after which the generator only returns
FinalYields ==
  {"yield_usage", "yield_fetch_err", "yield_extract_err", "yield_proc_err",
   "yield_image", "yield_send_err", "yield_render_err"}

\* generate_image awaited like the fetch is: a suspension before line 279
SuspensionPointsAndRender ==
  {"yield_usage", "yield_fetch_err", "yield_extract_err", "yield_proc_err",
   "yield_image", "yield_send_err", "yield_render_err", "yield_ack", "await_fetch",
   "render"}

\* where an invocation gives up the event loop: its yields and the await of
\* line 222 (line 49)
SuspensionPoints == FinalYields \cup {"yield_ack", "await_fetch"}

Parked(label) == label \in SuspensionPoints \cup {"idle", "done", "crashed"}

CanRun(i) == running = i \/ (running = 0 /\ Parked(pc[i]))

Handoff(i, label) == IF Parked(label) THEN 0 ELSE i

Init ==
  /\ last_image_path = None
  /\ disk = {}
  /\ now = 0
  /\ running = 0
  /\ pc = [i \in Slots |-> "idle"]
  /\ loc = [i \in Slots |-> NoLocals]
  /\ outputs = [i \in Slots |-> <<>>]
  /\ fetches = [i \in Slots |-> 0]
  /\ unlinked = [i \in Slots |-> "none"]
  /\ start = [i \in Slots |-> NoInvocation]
  /\ completed = NoInvocation
  /\ deleteFailed = FALSE
  /\ genLog = <<>>

\* ---- handle_heyao_query (lines 197-312) ----------------------------------------
\* the acknowledgment of line 219 not yielded before the fetch
FirstResultsLate(val) == IF val.ok THEN <<>> ELSE <<val.out>>

\* what the call has yielded when it first suspends (lines 206, 219)
FirstResults(val) == <<val.out>>

\* lines 199-219: the host calls the handler; it validates the message and
\* suspends at the usage error or at the acknowledgment
Receive(i, m) ==
  LET val == Validate(m) IN
  /\ pc[i] \in {"idle", "done"}
  /\ running = 0
  /\ pc' = [pc EXCEPT ![i] = IF val.ok THEN "yield_ack" ELSE "yield_usage"]
  /\ loc' = [loc EXCEPT ![i] =
               [NoLocals EXCEPT !.full_message = Str(m), !.order_id_user = val.order]]
  /\ outputs' = [outputs EXCEPT ![i] = FirstResults(val)]
  /\ fetches' = [fetches EXCEPT ![i] = 0]
  /\ unlinked' = [unlinked EXCEPT ![i] = "none"]
  /\ start' = [start EXCEPT ![i] = completed]
  /\ UNCHANGED <<last_image_path, disk, now, running, completed, deleteFailed, genLog>>

\* lines 220-222 and 41-49: resumed after the acknowledgment, the handler
\* starts the network call and awaits it
StartFetch(i) ==
  /\ pc[i] = "yield_ack"
  /\ CanRun(i)
  /\ pc' = [pc EXCEPT ![i] = "await_fetch"]
  /\ fetches' = [fetches EXCEPT ![i] = @ + 1]
  /\ loc' = [loc EXCEPT ![i].full_message = Unset]
  /\ running' = Handoff(i, "await_fetch")
  /\ UNCHANGED <<last_image_path, disk, now, outputs, unlinked, start, completed,
                 deleteFailed, genLog>>

\* lines 222-261, from the value fetch_wechat_info returns
HandleResponse(http, o) ==
  LET r == fetch_wechat_info(http) IN
  IF r.tag = "raise" THEN Step("crashed", None, None)
  ELSE IF r.v.t = "null" THEN Step("yield_fetch_err", Plain(FetchFailedText(o)), None)
  ELSE ProcessResponse(r.v, o)

\* lines 49-77 and 222-261: the network call ends
FetchReturn(i, http) ==
  LET r == fetch_wechat_info(http)
      s == HandleResponse(http, loc[i].order_id_user.v)
  IN
  /\ pc[i] = "await_fetch"
  /\ CanRun(i)
  /\ pc' = [pc EXCEPT ![i] = s.next]
  /\ loc' = [loc EXCEPT ![i].response = http,
                        ![i].api_data = IF r.tag = "ret" THEN r.v ELSE Unset,
                        ![i].order_details = IF s.next = "delete_prev" THEN s.details ELSE Unset]
  /\ outputs' = [outputs EXCEPT ![i] = IF s.out = None THEN @ ELSE Append(@, s.out)]
  /\ running' = Handoff(i, s.next)
  /\ UNCHANGED <<last_image_path, disk, now, fetches, unlinked, start, completed,
                 deleteFailed, genLog>>

\* lines 265-275 sparing a file that another invocation is still handing over
DeletePrevSparing(i, unlink_ok) ==
  /\ pc[i] = "delete_prev"
  /\ CanRun(i)
  /\ IF /\ last_image_path.t = "path"
        /\ last_image_path \in disk
        /\ ~\E a \in Slots \ {i} :
              pc[a] = "yield_image" /\ loc[a].image_path = last_image_path
     THEN /\ disk' = IF unlink_ok THEN disk \ {last_image_path} ELSE disk
          /\ unlinked' = [unlinked EXCEPT ![i] = IF unlink_ok THEN "ok" ELSE "error"]
          /\ deleteFailed' = (deleteFailed \/ ~unlink_ok)
     ELSE /\ unlink_ok
          /\ unlinked' = [unlinked EXCEPT ![i] = "skipped"]
          /\ UNCHANGED <<disk, deleteFailed>>
  /\ pc' = [pc EXCEPT ![i] = "render"]
  /\ loc' = [loc EXCEPT ![i].response = Unset, ![i].api_data = Unset]
  /\ running' = Handoff(i, "render")
  /\ UNCHANGED <<last_image_path, now, outputs, fetches, start, completed, genLog>>

\* lines 265-275: delete the previous image; unlink succeeds or raises OSError
DeletePrev(i, unlink_ok) ==
  /\ pc[i] = "delete_prev"
  /\ CanRun(i)
  /\ IF last_image_path.t = "path" /\ last_image_path \in disk
     THEN /\ disk' = IF unlink_ok THEN disk \ {last_image_path} ELSE disk
          /\ unlinked' = [unlinked EXCEPT ![i] = IF unlink_ok THEN "ok" ELSE "error"]
          /\ deleteFailed' = (deleteFailed \/ ~unlink_ok)
     ELSE /\ unlink_ok
          /\ unlinked' = [unlinked EXCEPT ![i] = "skipped"]
          /\ UNCHANGED <<disk, deleteFailed>>
  /\ pc' = [pc EXCEPT ![i] = "render"]
  /\ loc' = [loc EXCEPT ![i].response = Unset, ![i].api_data = Unset]
  /\ running' = Handoff(i, "render")
  /\ UNCHANGED <<last_image_path, now, outputs, fetches, start, completed, genLog>>

\* lines 279-280: generate_image at clock reading tm
Render(i, env, tm) ==
  LET image_path == generate_image(loc[i].order_details, env, tm)
      call == [v0 |-> Get(loc[i].order_details, "v0", None), tm |-> tm, path |-> image_path]
  IN
  /\ pc[i] = "render"
  /\ CanRun(i)
  /\ tm \in now .. MaxTime
  /\ now' = tm + 1
  /\ loc' = [loc EXCEPT ![i].image_path = image_path]
  /\ disk' = IF image_path.t = "path" THEN disk \cup {image_path} ELSE disk
  /\ genLog' = IF image_path.t = "path"
               THEN (IF genLog = <<>> THEN <<call>> ELSE <<genLog[Len(genLog)], call>>)
               ELSE genLog
  /\ pc' = [pc EXCEPT ![i] = "deliver"]
  /\ running' = Handoff(i, "deliver")
  /\ UNCHANGED <<last_image_path, outputs, fetches, unlinked, start, completed, deleteFailed>>

\* lines 282-310: record the new image and yield it, or report the failure;
\* comp_ok is whether building the image component succeeds (lines 290-302)
Deliver(i, comp_ok) ==
  LET image_path == loc[i].image_path
      o == loc[i].order_id_user.v
  IN
  /\ pc[i] = "deliver"
  /\ CanRun(i)
  /\ IF image_path.t = "path" /\ image_path \in disk
     THEN /\ last_image_path' = image_path
          /\ outputs' = [outputs EXCEPT ![i] =
                           Append(@, IF comp_ok THEN ImageResult(image_path)
                                     ELSE Plain(SendProblemText))]
          /\ pc' = [pc EXCEPT ![i] = IF comp_ok THEN "yield_image" ELSE "yield_send_err"]
     ELSE /\ comp_ok
          /\ outputs' = [outputs EXCEPT ![i] = Append(@, Plain(RenderFailedText(o)))]
          /\ pc' = [pc EXCEPT ![i] = "yield_render_err"]
          /\ UNCHANGED last_image_path
  /\ loc' = [loc EXCEPT ![i].order_details = Unset]
  /\ running' = 0
  /\ UNCHANGED <<disk, now, fetches, unlinked, start, completed, deleteFailed, genLog>>

ResultOf(label) ==
  CASE label \in {"yield_image", "yield_send_err"} -> "rendered"
    [] label = "yield_render_err" -> "render_failed"
    [] OTHER -> "other"

\* lines 207-208, 227-228, 244-245, 251-252, 260-261, 297-312: resumed after
\* its last yield, the generator returns
Resume(i) ==
  /\ pc[i] \in FinalYields
  /\ CanRun(i)
  /\ pc' = [pc EXCEPT ![i] = "done"]
  /\ completed' = [result |-> ResultOf(pc[i]), path |-> loc[i].image_path]
  /\ loc' = [loc EXCEPT ![i].response = Unset, ![i].api_data = Unset]
  /\ running' = 0
  /\ UNCHANGED <<last_image_path, disk, now, outputs, fetches, unlinked, start,
                 deleteFailed, genLog>>

\* ---- specifications ---------------------------------------------------------------
\* the host runs one invocation after the other
Next ==
  \/ \E m \in Messages : Receive(1, m)
  \/ StartFetch(1)
  \/ \E http \in HttpOutcomes : FetchReturn(1, http)
  \/ \E unlink_ok \in BOOLEAN : DeletePrev(1, unlink_ok)
  \/ \E env \in RenderEnvs, tm \in 0 .. MaxTime : Render(1, env, tm)
  \/ \E comp_ok \in BOOLEAN : Deliver(1, comp_ok)
  \/ Resume(1)

Spec == Init /\ [][Next]_vars

\* the host runs up to MaxSlots invocations concurrently, one per slot,
\* started in the order of the slots
ReceiveOnce(i, m) ==
  /\ pc[i] = "idle"
  /\ IF i = 1 THEN TRUE ELSE pc[i - 1] # "idle"
  /\ Receive(i, m)

NextConc ==
  \E i \in Slots :
    \/ \E m \in ConcMessages : ReceiveOnce(i, m)
    \/ StartFetch(i)
    \/ \E http \in ConcOutcomes : FetchReturn(i, http)
    \/ \E unlink_ok \in BOOLEAN : DeletePrev(i, unlink_ok)
    \/ \E env \in RenderEnvs, tm \in 0 .. MaxTime : Render(i, env, tm)
    \/ \E comp_ok \in BOOLEAN : Deliver(i, comp_ok)
    \/ Resume(i)

SpecConc == Init /\ [][NextConc]_vars

\* ---- properties --------------------------------------------------------------------
Last(q) == q[Len(q)]

Order(i) == loc[i].order_id_user.v

\* C1: in a sequential run, when the invocation before rendered an image F1 and
\* this invocation got as far as generate_image, which returned no path, then
\* once this invocation has returned F1 is still on disk and last_image_path
\* is still F1.
C1_FailedRenderKeepsPreviousImage ==
  (pc[1] = "done" /\ start[1].result = "rendered" /\ completed.result = "render_failed")
    => (start[1].path \in disk /\ last_image_path = start[1].path)

\* C2: in a sequential run, when the invocation before rendered F1 and this one
\* rendered F2, then once this one has returned F1 is no longer on disk and
\* last_image_path is F2; stated for the runs whose unlink did not fail.
C2_SecondRenderReplacesFirst ==
  (/\ pc[1] = "done"
   /\ start[1].result = "rendered"
   /\ completed.result = "rendered"
   /\ unlinked[1] # "error")
    => (start[1].path \notin disk /\ last_image_path = completed.path)

\* the response is an object whose queryDataList is absent, empty or no list
NoResults(d) ==
  /\ d.t = "dict"
  /\ \/ ~HasKey(d, "queryDataList")
     \/ Get(d, "queryDataList", None).t # "list"
     \/ Get(d, "queryDataList", None).v = <<>>

\* the precedence the claim states: error, then code == -1, then msg, then generic
ClaimedErrorMsg(d, o) ==
  IF HasKey(d, "error") THEN ApiErrorText(Get(d, "error", None))
  ELSE IF HasKey(d, "code") /\ Get(d, "code", None) = Num(-1) THEN NotFoundText(o)
  ELSE IF HasKey(d, "msg") THEN PyStr(Get(d, "msg", None))
  ELSE GenericMsg

\* msg when present and not the generic text itself, then code == -1, then
\* error, then generic
AmendedErrorMsg(d, o) ==
  IF HasKey(d, "msg") /\ Get(d, "msg", None) # Str(GenericMsg)
  THEN PyStr(Get(d, "msg", None))
  ELSE IF HasKey(d, "code") /\ Get(d, "code", None) = Num(-1) THEN NotFoundText(o)
  ELSE IF HasKey(d, "error") THEN ApiErrorText(Get(d, "error", None))
  ELSE GenericMsg

\* C3 as claimed: for a response without results the failure message is chosen
\* by the precedence error > code == -1 > msg > generic.
C3_ClaimedPrecedence ==
  \A i \in Slots :
    NoResults(loc[i].api_data)
      => /\ pc[i] = "yield_extract_err"
         /\ Last(outputs[i]) =
              Plain(QueryFailedText(ClaimedErrorMsg(loc[i].api_data, Order(i)), Order(i)))

\* C3 as amended: for a response without results the failure message is chosen
\* by the precedence msg (present and not the generic text) > code == -1 >
\* error > generic.
C3_MsgFirstPrecedence ==
  \A i \in Slots :
    NoResults(loc[i].api_data)
      => /\ pc[i] = "yield_extract_err"
         /\ Last(outputs[i]) =
              Plain(QueryFailedText(AmendedErrorMsg(loc[i].api_data, Order(i)), Order(i)))

\* a response with error and msg has been answered with the msg
C3_Witness ==
  \E i \in Slots :
    /\ NoResults(loc[i].api_data)
    /\ HasKey(loc[i].api_data, "error")
    /\ HasKey(loc[i].api_data, "code")
    /\ Get(loc[i].api_data, "msg", None) = Str(<<"m">>)
    /\ Last(outputs[i]) = Plain(QueryFailedText(<<"m">>, Order(i)))

\* the message has fewer than two whitespace-separated words
NoOrderGiven(m) ==
  Cardinality({k \in 1 .. Len(m) :
                 ~IsSpace(m[k]) /\ (IF k = 1 THEN TRUE ELSE IsSpace(m[k - 1]))}) < 2

InvalidCall(i) ==
  loc[i].full_message.t = "str" /\ NoOrderGiven(loc[i].full_message.v)

\* C4: an invocation whose message has no second word yields the usage error
\* and nothing else, starts no network call, deletes no file, and none of its
\* steps changes the disk or last_image_path.
C4_UsageErrorOnly ==
  /\ [](\A i \in Slots :
          InvalidCall(i)
            => /\ pc[i] \in {"yield_usage", "done"}
               /\ outputs[i] = <<Plain(UsageText)>>
               /\ fetches[i] = 0
               /\ unlinked[i] = "none")
  /\ [][\A i \in Slots :
          (InvalidCall(i)' /\ pc'[i] # pc[i])
            => (disk' = disk /\ last_image_path' = last_image_path)]_vars

\* an invocation with the message "x " has returned while an image is on disk
C4_Witness ==
  \E i \in Slots :
    /\ pc[i] = "done"
    /\ loc[i].full_message = Str(<<"x", " ">>)
    /\ last_image_path \in disk

\* queryDataList is a non-empty list whose element 0 is an object with a
\* content that is an object
HasContentDict(d) ==
  /\ d.t = "dict"
  /\ HasKey(d, "queryDataList")
  /\ Get(d, "queryDataList", None).t = "list"
  /\ Len(Get(d, "queryDataList", None).v) > 0
  /\ Get(d, "queryDataList", None).v[1].t = "dict"
  /\ HasKey(Get(d, "queryDataList", None).v[1], "content")
  /\ Get(Get(d, "queryDataList", None).v[1], "content", None).t = "dict"

ContentOf(d) == Get(Get(d, "queryDataList", None).v[1], "content", None)

\* C5 as claimed: whenever element 0 has a dictionary content, of any size,
\* extraction succeeds with exactly that dictionary as the order details and
\* no result but the acknowledgment has been yielded.
C5_AnyContentDictPasses ==
  \A i \in Slots :
    HasContentDict(loc[i].api_data)
      => /\ pc[i] = "delete_prev"
         /\ loc[i].order_details = ContentOf(loc[i].api_data)
         /\ outputs[i] = <<Plain(AckText(Order(i)))>>

\* C5 as amended: a non-empty dictionary content passes unchanged; the empty
\* dictionary is answered with the malformed-content message.
C5_NonEmptyContentDictPasses ==
  \A i \in Slots :
    HasContentDict(loc[i].api_data)
      => IF ContentOf(loc[i].api_data).v # {}
         THEN /\ pc[i] = "delete_prev"
              /\ loc[i].order_details = ContentOf(loc[i].api_data)
              /\ outputs[i] = <<Plain(AckText(Order(i)))>>
         ELSE /\ pc[i] = "yield_extract_err"
              /\ loc[i].order_details = Unset
              /\ Last(outputs[i]) = Plain(MalformedText(Order(i)))

\* the content record with batch #A/B C is about to be rendered
C5_Witness ==
  \E i \in Slots :
    /\ HasContentDict(loc[i].api_data)
    /\ pc[i] = "delete_prev"
    /\ loc[i].order_details = DetailsABC

\* C6: two successful calls of generate_image with the same v0, at different
\* clock readings of the same second, return different file names.
C6_SameSecondNamesDiffer ==
  (/\ Len(genLog) = 2
   /\ genLog[1].v0 = genLog[2].v0
   /\ genLog[1].tm # genLog[2].tm
   /\ genLog[1].tm \div UsecPerSec = genLog[2].tm \div UsecPerSec)
    => genLog[1].path # genLog[2].path

\* the HTTP call timed out, failed to connect, gave another status than 200,
\* or gave a body that is no JSON
FetchFails(http) ==
  \/ http.kind \in {"timeout", "conn_error"}
  \/ http.status # 200
  \/ http.body = InvalidBody

\* C7: no invocation ends with an exception; after a failed HTTP call
\* fetch_wechat_info has returned None and the fetch error text is yielded;
\* every invocation past the fetch that does not hand over an image has
\* yielded a text last, and a finished one has yielded a text.
C7_NoExceptionEscapes ==
  \A i \in Slots :
    /\ pc[i] # "crashed"
    /\ (loc[i].response # Unset /\ FetchFails(loc[i].response))
         => /\ loc[i].api_data = None
            /\ pc[i] = "yield_fetch_err"
            /\ Last(outputs[i]) = Plain(FetchFailedText(Order(i)))
    /\ pc[i] \in FinalYields \ {"yield_image"} => Last(outputs[i]).kind = "plain"
    /\ pc[i] = "done" => \E k \in 1 .. Len(outputs[i]) : outputs[i][k].kind = "plain"

\* a JSON list as the response, and a string as element 0, have each been
\* answered with the processing error text
C7_Witness ==
  \E i \in Slots :
    /\ pc[i] = "yield_proc_err"
    /\ loc[i].api_data \in {List(<<Num(1)>>), WithResults(Str(<<"x">>))}
    /\ Last(outputs[i]) = Plain(ProcessingErrorText(Order(i)))

\* C8: a delete step that another invocation b takes, and whose unlink does
\* not fail, while invocation a is suspended at the yield of its image and
\* last_image_path is a's image, removes a's image from disk and leaves a
\* suspended there: nothing keeps the file for a.
C8_DeleteUnderSuspendedOwner ==
  [][\A a, b \in Slots :
       (/\ a # b
        /\ pc[a] = "yield_image"
        /\ loc[a].image_path = last_image_path
        /\ last_image_path \in disk
        /\ pc[b] = "delete_prev"
        /\ pc'[b] = "render"
        /\ unlinked'[b] # "error")
         => (loc[a].image_path \notin disk' /\ pc'[a] = "yield_image")]_vars

\* a is suspended at the yield of its image, which b has deleted
C8_Witness ==
  \E a, b \in Slots :
    /\ a # b
    /\ pc[a] = "yield_image"
    /\ Last(outputs[a]) = ImageResult(loc[a].image_path)
    /\ loc[a].image_path = last_image_path
    /\ loc[a].image_path \notin disk
    /\ pc[b] = "render"
    /\ unlinked[b] = "ok"

\* C9: an invocation with a valid order id has yielded the acknowledgment as
\* its first result; while it is suspended there no network call has started,
\* and a network call has started only in an invocation that yielded it.
C9_AckBeforeFetch ==
  \A i \in Slots :
    /\ loc[i].order_id_user.t = "str"
         => (outputs[i] # <<>> /\ outputs[i][1] = Plain(AckText(Order(i))))
    /\ pc[i] = "yield_ack" => (fetches[i] = 0 /\ Len(outputs[i]) = 1)
    /\ fetches[i] > 0 => (loc[i].order_id_user.t = "str" /\ fetches[i] = 1)
    /\ pc[i] \in {"await_fetch", "delete_prev", "render", "deliver"} => fetches[i] = 1

\* the network call of an acknowledged order is in flight
C9_Witness ==
  \E i \in Slots :
    /\ pc[i] = "await_fetch"
    /\ fetches[i] = 1
    /\ outputs[i] = <<Plain(AckText(<<"x">>))>>

\* C10: delete, render and pointer update run without a suspension between
\* them, and while no unlink has failed, whenever no invocation holds the
\* event loop at most one generated file is on disk, and it is the file
\* last_image_path refers to.
C10_OneReferencedImage ==
  /\ \A i \in Slots : pc[i] \in {"delete_prev", "render", "deliver"} => running = i
  /\ (running = 0 /\ ~deleteFailed)
       => (Cardinality(disk) <= 1 /\ \A f \in disk : f = last_image_path)

\* two invocations are both suspended at the yield of their images, and one
\* file is on disk
C10_Witness ==
  \E a, b \in Slots :
    /\ a # b
    /\ pc[a] = "yield_image"
    /\ pc[b] = "yield_image"
    /\ loc[a].image_path # loc[b].image_path
    /\ ~deleteFailed
    /\ running = 0
    /\ disk = {last_image_path}

====
